---- MODULE Spec2Model ----
(***************************************************************************)
(* A model of MicrosoftAuthProvider (src/index.js): the five-stage token   *)
(* exchange chain behind completeLogin and refreshTokens, the 'error'      *)
(* event channel inherited from EventEmitter, and the two entitlement      *)
(* checks validateMinecraftToken and checkGameOwnership.                   *)
(*                                                                         *)
(* JavaScript values are records tagged by a field t ("undefined", "null", *)
(* "string", "number", "boolean", "object"); token strings and expires_in  *)
(* numbers inside an object are plain TLA+ strings and numbers.  A string  *)
(* built by concatenation is the sequence of its parts.                    *)
(***************************************************************************)
EXTENDS Integers, Sequences, FiniteSets, TLC

\* The field names of the module's records.  Every record below lists its
\* fields in this relative order, so that a record value is built in the
\* order in which TLC stores it.
FieldOrder ==
    [ t |-> 0, bool |-> 0, num |-> 0, str |-> 0, elems |-> 0,
      UNKNOWN |-> 0, USER_CANCELLED |-> 0, ACCESS_DENIED |-> 0,
      SERVER_ERROR |-> 0, ACCOUNT_NOT_FOUND |-> 0, NO_XBOX_ACCOUNT |-> 0,
      NO_MINECRAFT |-> 0,
      ok |-> 0, status |-> 0, data |-> 0, response |-> 0,
      stage |-> 0, client_id |-> 0, scope |-> 0, grant_type |-> 0,
      code |-> 0, redirect_uri |-> 0,
      AuthMethod |-> 0, SiteName |-> 0, RpsTicket |-> 0, SandboxId |-> 0,
      UserTokens |-> 0, RelyingParty |-> 0, TokenType |-> 0,
      token |-> 0, userHash |-> 0, identityToken |-> 0, Authorization |-> 0,
      do |-> 0, value |-> 0, request |-> 0,
      microsoft |-> 0, minecraft |-> 0, profile |-> 0, user |-> 0,
      access_token |-> 0, refresh_token |-> 0, expires_at |-> 0,
      id |-> 0, name |-> 0, message |-> 0, skins |-> 0, capes |-> 0,
      username |-> 0, uuid |-> 0, type |-> 0,
      called |-> 0, threw |-> 0, listener |-> 0, thrown |-> 0,
      expires_in |-> 0, error_description |-> 0,
      Token |-> 0, uhs |-> 0, DisplayClaims |-> 0, xui |-> 0, XErr |-> 0,
      items |-> 0, msTokenData |-> 0, mcTokenData |-> 0,
      outcome |-> 0, inv |-> 0, error |-> 0,
      clientId |-> 0, redirectUri |-> 0, options |-> 0, result |-> 0,
      calls |-> 0, step |-> 0 ]

\* ---------------------------------------------------------------- bounds

\* The horizon of the clock, in milliseconds: network round trips take any
\* time that ends within it.
MaxClock == 2

\* The most listeners registered on the 'error' event.
MaxListeners == 2

\* The most entries of DisplayClaims.xui in a security-token response.
MaxClaims == 2

\* The most entries of the items array in an entitlement response.
MaxItems == 2

\* ------------------------------------------------------------- JS values

Undefined == [t |-> "undefined"]

Null == [t |-> "null"]

JsBool(b) == [t |-> "boolean", bool |-> b]

JsNumber(n) == [t |-> "number", num |-> n]

JsString(s) == [t |-> "string", str |-> s]

JsArray(elems) == [t |-> "array", elems |-> elems]

IsObject(v) == v.t = "object"

\* JavaScript truthiness of a tagged value.
Truthy(v) ==
    CASE v.t = "undefined" -> FALSE
      [] v.t = "null"      -> FALSE
      [] v.t = "boolean"   -> v.bool
      [] v.t = "number"    -> v.num # 0
      [] v.t = "string"    -> v.str # ""
      [] OTHER             -> TRUE

\* ----------------------------------------------------- the provider's data

\* this.ErrorCode, set by the constructor.
ErrorCode ==
    [ UNKNOWN           |-> "unknown_error",
      USER_CANCELLED    |-> "user_cancelled",
      ACCESS_DENIED     |-> "access_denied",
      SERVER_ERROR      |-> "server_error",
      ACCOUNT_NOT_FOUND |-> "account_not_found",
      NO_XBOX_ACCOUNT   |-> "no_xbox_account",
      NO_MINECRAFT      |-> "no_minecraft_license" ]

\* A string that is URL-encoded somewhere is the sequence of its units: a run
\* of characters encodeURIComponent leaves alone, one character it escapes,
\* or one UTF-16 surrogate code unit ("U+D83D" is a high one, "U+DE00" a low
\* one).

\* The clientId of the README's example.
ClientId == "YOUR_AZURE_CLIENT_ID"

\* The redirect URI the constructor falls back to.
DefaultRedirectUri ==
    <<"https", ":", "/", "/", "login.microsoftonline.com", "/", "common", "/",
      "oauth2", "/", "nativeclient">>

\* The upstream codes getXSTSToken tells apart under a 401.  They exceed the
\* 32-bit integers of TLC, and the code only compares them with ===, so each
\* is written as the string of its digits.
XErrNoXboxAccount == "2148916233"

XErrRegion == "2148916238"

\* The message prefixes of the errors the stages throw (the source's texts
\* are Chinese; each name says which text it stands for).
MsgMicrosoftTokenFailed == "getMicrosoftToken failed: "

MsgXboxLiveTokenFailed == "getXboxLiveToken failed: "

MsgNoXboxAccount == "account has no Xbox account, create one: "

MsgRegion == "account is from a country/region without Xbox Live"

MsgXSTSTokenFailed == "getXSTSToken failed: "

MsgMinecraftTokenFailed == "getMinecraftToken failed: "

MsgNoProfile == "no Minecraft profile found, game may not be purchased: "

MsgNotPurchased == "account has not purchased Minecraft: "

MsgProfileFailed == "getMinecraftProfile failed: "

\* new Error(message): message is the sequence of the concatenated parts.
NewError(parts) == [name |-> "Error", message |-> parts]

\* The TypeError the engine throws on reading a property of null/undefined.
\* As a caught exception it has a message and no response.
TypeErrorOf(what) ==
    [name |-> "TypeError", message |-> <<"Cannot read properties of ", what>>]

\* What a throwing 'error' listener throws.
ListenerError == [name |-> "Error", message |-> <<"listener failed">>]

\* ------------------------------------------------------- the HTTP transport

\* axios resolves with {status, data} on 2xx ...
Fulfilled(status, data) == [ok |-> TRUE, status |-> status, data |-> data]

\* ... rejects with error.response = {status, data} on any other status ...
HttpError(status, data) ==
    [ok |-> FALSE, response |-> [status |-> status, data |-> data],
     message |-> <<"Request failed with status code">>]

\* ... and rejects with no error.response when the transport itself fails.
NetworkError == [ok |-> FALSE, response |-> Undefined, message |-> <<"Network Error">>]

\* A JavaScript exception caught by a stage's catch block, seen as that
\* block sees it: error.response is undefined, error.message is its text.
Caught(e) == [ok |-> FALSE, response |-> Undefined, message |-> e.message]

HasResponse(error) == "status" \in DOMAIN error.response

\* error.response?.data?.<field> || error.message
UpstreamMessage(error, field) ==
    LET data == IF HasResponse(error) THEN error.response.data ELSE Undefined
    IN  IF IsObject(data) /\ field \in DOMAIN data /\ data[field] # ""
        THEN <<data[field]>>
        ELSE error.message

\* What a stage function does: it returns a value or throws an error.
Return(v) == [ok |-> TRUE, value |-> v]

Throw(e) == [ok |-> FALSE, error |-> e]

\* ------------------------------------ construction and the authorization URL

MsgClientIdRequired == "the clientId parameter is required"

\* The constructor asking only that options has a clientId property.
constructorAnyClientId(options) ==
    IF ~Truthy(options) \/ "clientId" \notin DOMAIN options
    THEN Throw(NewError(<<MsgClientIdRequired>>))
    ELSE Return([t |-> "object",
                 clientId |-> options.clientId,
                 redirectUri |-> IF "redirectUri" \in DOMAIN options
                                    /\ options.redirectUri # <<>>
                                 THEN options.redirectUri
                                 ELSE DefaultRedirectUri])

\* new MicrosoftAuthProvider(options): it throws when options or
\* options.clientId is falsy, else it returns the instance, whose redirectUri
\* is options.redirectUri || the default.
constructor(options) ==
    IF ~Truthy(options) \/ "clientId" \notin DOMAIN options \/ options.clientId = ""
    THEN Throw(NewError(<<MsgClientIdRequired>>))
    ELSE Return([t |-> "object",
                 clientId |-> options.clientId,
                 redirectUri |-> IF "redirectUri" \in DOMAIN options
                                    /\ options.redirectUri # <<>>
                                 THEN options.redirectUri
                                 ELSE DefaultRedirectUri])

\* The completion of the `new` expression that made the provider: the options
\* it was given and what the constructor did with them; undefined before.
VARIABLE msAuth

Constructed == "result" \in DOMAIN msAuth /\ msAuth.result.ok

\* The provider instance, inside its methods.
this == msAuth.result.value

HighSurrogates == {"U+D83D"}

LowSurrogates == {"U+DE00"}

\* The escapes of the characters encodeURIComponent does not leave alone.
PercentEncoded(c) ==
    CASE c = ":" -> "%3A"
      [] c = "/" -> "%2F"
      [] c = "?" -> "%3F"
      [] c = "=" -> "%3D"
      [] c = "&" -> "%26"
      [] c = " " -> "%20"
      [] OTHER   -> c

URIError == [name |-> "URIError", message |-> <<"URI malformed">>]

\* encodeURIComponent(s), unit by unit, done being what is encoded so far: a
\* high surrogate with the low one after it is one escaped character, any
\* other surrogate makes it throw a URIError.
RECURSIVE Encode(_, _)
Encode(s, done) ==
    IF s = <<>> THEN Return(done)
    ELSE IF Head(s) \in HighSurrogates
    THEN IF Len(s) >= 2 /\ s[2] \in LowSurrogates
         THEN Encode(Tail(Tail(s)), Append(done, "%F0%9F%98%80"))
         ELSE Throw(URIError)
    ELSE IF Head(s) \in LowSurrogates
    THEN Throw(URIError)
    ELSE Encode(Tail(s), Append(done, PercentEncoded(Head(s))))

encodeURIComponent(s) == Encode(s, <<>>)

\* getAuthorizationUrl(): the template string, or the exception of the
\* encodeURIComponent call that throws.
getAuthorizationUrl ==
    LET scopes   == <<"XboxLive.signin", " ", "offline_access">>
        scope    == encodeURIComponent(scopes)
        redirect == encodeURIComponent(this.redirectUri)
    IN  IF ~scope.ok THEN scope
        ELSE IF ~redirect.ok THEN redirect
        ELSE Return(<<"https://login.microsoftonline.com/consumers/oauth2/v2.0/authorize?prompt=select_account&client_id=",
                      this.clientId, "&response_type=code&scope=">>
                    \o scope.value \o <<"&redirect_uri=">> \o redirect.value)

\* ------------------------------------------------------------ the stages

\* The stage-1 request with the default redirect URI whatever was configured.
getMicrosoftTokenRequestDefaultUri(code, isRefresh) ==
    IF isRefresh
    THEN [stage |-> 1, client_id |-> this.clientId,
          scope |-> "XboxLive.signin offline_access",
          grant_type |-> "refresh_token", refresh_token |-> code]
    ELSE [stage |-> 1, client_id |-> this.clientId,
          scope |-> "XboxLive.signin offline_access",
          grant_type |-> "authorization_code", code |-> code,
          redirect_uri |-> DefaultRedirectUri]

\* Stage 1, the request: the form posted to the token endpoint.
getMicrosoftTokenRequest(code, isRefresh) ==
    IF isRefresh
    THEN [stage |-> 1, client_id |-> this.clientId,
          scope |-> "XboxLive.signin offline_access",
          grant_type |-> "refresh_token", refresh_token |-> code]
    ELSE [stage |-> 1, client_id |-> this.clientId,
          scope |-> "XboxLive.signin offline_access",
          grant_type |-> "authorization_code", code |-> code,
          redirect_uri |-> this.redirectUri]

\* Stage 1, after the await: return response.data, or wrap the failure.
getMicrosoftToken(outcome) ==
    IF outcome.ok
    THEN Return(outcome.data)
    ELSE Throw(NewError(<<MsgMicrosoftTokenFailed>>
                        \o UpstreamMessage(outcome, "error_description")))

\* Stage 2, the request.
getXboxLiveTokenRequest(accessToken) ==
    [stage |-> 2, AuthMethod |-> "RPS", SiteName |-> "user.auth.xboxlive.com",
     RpsTicket |-> <<"d=", accessToken>>,
     RelyingParty |-> "http://auth.xboxlive.com", TokenType |-> "JWT"]

\* Stage 2, after the await.
getXboxLiveToken(outcome) ==
    IF outcome.ok
    THEN Return(outcome.data)
    ELSE Throw(NewError(<<MsgXboxLiveTokenFailed>>
                        \o UpstreamMessage(outcome, "message")))

\* Stage 3, the request.
getXSTSTokenRequest(xblToken) ==
    [stage |-> 3, SandboxId |-> "RETAIL", UserTokens |-> <<xblToken>>,
     RelyingParty |-> "rp://api.minecraftservices.com/", TokenType |-> "JWT"]

\* Stage 3, the catch block: the two codes under a 401, else the generic
\* error.  error.response.data.XErr is read without a guard, so a 401 whose
\* data is null or undefined throws a TypeError out of the catch block.
getXSTSTokenCatch(error) ==
    IF HasResponse(error) /\ error.response.status = 401
    THEN LET data == error.response.data
         IN  IF data.t \in {"null", "undefined"}
             THEN Throw(TypeErrorOf(data.t))
             ELSE IF IsObject(data) /\ "XErr" \in DOMAIN data
                     /\ data.XErr = XErrNoXboxAccount
             THEN Throw(NewError(<<MsgNoXboxAccount, ErrorCode.NO_XBOX_ACCOUNT>>))
             ELSE IF IsObject(data) /\ "XErr" \in DOMAIN data
                     /\ data.XErr = XErrRegion
             THEN Throw(NewError(<<MsgRegion>>))
             ELSE Throw(NewError(<<MsgXSTSTokenFailed>>
                                 \o UpstreamMessage(error, "message")))
    ELSE Throw(NewError(<<MsgXSTSTokenFailed>>
                        \o UpstreamMessage(error, "message")))

\* Stage 3 taking the user hash from the last claim instead of the first.
getXSTSTokenLastClaim(outcome) ==
    IF outcome.ok
    THEN LET data == outcome.data
         IN  IF ~IsObject(data)
             THEN getXSTSTokenCatch(Caught(TypeErrorOf(data.t)))
             ELSE IF "DisplayClaims" \notin DOMAIN data
             THEN getXSTSTokenCatch(Caught(TypeErrorOf("undefined")))
             ELSE IF Len(data.DisplayClaims.xui) = 0
             THEN getXSTSTokenCatch(Caught(TypeErrorOf("undefined")))
             ELSE Return([t |-> "object", token |-> data.Token,
                          userHash |-> data.DisplayClaims.xui[
                                           Len(data.DisplayClaims.xui)].uhs])
    ELSE getXSTSTokenCatch(outcome)

\* Stage 3, after the await: {token, userHash} from the first claim; a
\* response without data, without DisplayClaims or with an empty xui makes
\* the property read throw inside the try block, which its catch handles.
getXSTSToken(outcome) ==
    IF outcome.ok
    THEN LET data == outcome.data
         IN  IF ~IsObject(data)
             THEN getXSTSTokenCatch(Caught(TypeErrorOf(data.t)))
             ELSE IF "DisplayClaims" \notin DOMAIN data
             THEN getXSTSTokenCatch(Caught(TypeErrorOf("undefined")))
             ELSE IF Len(data.DisplayClaims.xui) = 0
             THEN getXSTSTokenCatch(Caught(TypeErrorOf("undefined")))
             ELSE Return([t |-> "object", token |-> data.Token,
                          userHash |-> data.DisplayClaims.xui[1].uhs])
    ELSE getXSTSTokenCatch(outcome)

\* Stage 4, the request.
getMinecraftTokenRequest(xstsData) ==
    [stage |-> 4,
     identityToken |-> <<"XBL3.0 x=", xstsData.userHash, ";", xstsData.token>>]

\* Stage 4, after the await.
getMinecraftToken(outcome) ==
    IF outcome.ok
    THEN Return(outcome.data)
    ELSE Throw(NewError(<<MsgMinecraftTokenFailed>>
                        \o UpstreamMessage(outcome, "message")))

\* Stage 5, the request.
getMinecraftProfileRequest(accessToken) ==
    [stage |-> 5, Authorization |-> <<"Bearer ", accessToken>>]

\* The catch block of stage 5 without the 404 case.
getMinecraftProfileCatchGeneric(error) ==
    Throw(NewError(<<MsgProfileFailed>> \o UpstreamMessage(error, "message")))

\* Stage 5, the catch block: 404 is "not purchased", else the generic error.
getMinecraftProfileCatch(error) ==
    IF HasResponse(error) /\ error.response.status = 404
    THEN Throw(NewError(<<MsgNotPurchased, ErrorCode.NO_MINECRAFT>>))
    ELSE Throw(NewError(<<MsgProfileFailed>> \o UpstreamMessage(error, "message")))

\* Stage 5, after the await.  The "no profile" error is thrown inside the
\* try block, so the stage's own catch block receives it.
getMinecraftProfile(outcome) ==
    IF outcome.ok
    THEN LET data == outcome.data
         IN  IF ~Truthy(data) \/ ~IsObject(data) \/ "id" \notin DOMAIN data
                \/ data.id = ""
             THEN getMinecraftProfileCatch(
                      Caught(NewError(<<MsgNoProfile, ErrorCode.NO_MINECRAFT>>)))
             ELSE Return(data)
    ELSE getMinecraftProfileCatch(outcome)

\* The entitlement request of validateMinecraftToken and checkGameOwnership.
EntitlementRequest(accessToken) ==
    [stage |-> 6, Authorization |-> <<"Bearer ", accessToken>>]

\* validateMinecraftToken taking every fulfilled request for a valid token.
validateMinecraftTokenAnySuccess(outcome) ==
    JsBool(outcome.ok)

\* validateMinecraftToken, after the await.
validateMinecraftToken(outcome) ==
    IF outcome.ok THEN JsBool(outcome.status = 200) ELSE JsBool(FALSE)

\* The items test with every in place of some.
EveryGameMinecraft(items) ==
    \A k \in 1..Len(items) :
        "name" \in DOMAIN items[k] /\ items[k].name = "game_minecraft"

\* items.some(item => item.name === 'game_minecraft')
SomeGameMinecraft(items) ==
    \E k \in 1..Len(items) :
        "name" \in DOMAIN items[k] /\ items[k].name = "game_minecraft"

\* checkGameOwnership, after the await: a && b && c is the first falsy
\* operand, else the last one; calling .some on a value that has none throws
\* inside the try block and the catch block returns false.
checkGameOwnership(outcome) ==
    IF outcome.ok
    THEN LET data == outcome.data
         IN  IF ~Truthy(data) THEN data
             ELSE IF ~IsObject(data) \/ "items" \notin DOMAIN data THEN Undefined
             ELSE IF ~Truthy(data.items) THEN data.items
             ELSE IF data.items.t # "array" THEN JsBool(FALSE)
             ELSE JsBool(SomeGameMinecraft(data.items.elems))
    ELSE JsBool(FALSE)

\* ------------------------------------------------------- the orchestration

\* What an async function does when a stage it awaited has settled: it
\* awaits the next request, throws into its catch block, or returns.
Await(request) == [do |-> "await", request |-> request]

Fail(error) == [do |-> "throw", error |-> error]

Done(value) == [do |-> "return", value |-> value]

\* LoginResult with the convenience view filled from the wrong fields.
LoginResultSwapped(msTokenData, mcTokenData, mcProfileData, now) ==
    [t |-> "object",
     microsoft |-> [access_token  |-> msTokenData.access_token,
                    refresh_token |-> msTokenData.refresh_token,
                    expires_at    |-> now + (msTokenData.expires_in * 1000)],
     minecraft |-> [access_token |-> mcTokenData.access_token,
                    expires_at   |-> now + (mcTokenData.expires_in * 1000)],
     profile   |-> [id    |-> mcProfileData.id,
                    name  |-> mcProfileData.name,
                    skins |-> mcProfileData.skins,
                    capes |-> mcProfileData.capes],
     user      |-> [username |-> mcProfileData.id,
                    uuid     |-> mcProfileData.name,
                    type     |-> "microsoft"]]

\* The object completeLogin returns; now is Date.now() at the return.
LoginResult(msTokenData, mcTokenData, mcProfileData, now) ==
    [t |-> "object",
     microsoft |-> [access_token  |-> msTokenData.access_token,
                    refresh_token |-> msTokenData.refresh_token,
                    expires_at    |-> now + (msTokenData.expires_in * 1000)],
     minecraft |-> [access_token |-> mcTokenData.access_token,
                    expires_at   |-> now + (mcTokenData.expires_in * 1000)],
     profile   |-> [id    |-> mcProfileData.id,
                    name  |-> mcProfileData.name,
                    skins |-> mcProfileData.skins,
                    capes |-> mcProfileData.capes],
     user      |-> [username |-> mcProfileData.name,
                    uuid     |-> mcProfileData.id,
                    type     |-> "microsoft"]]

\* The object refreshTokens returns.
RefreshResult(msTokenData, mcTokenData, now) ==
    [t |-> "object",
     microsoft |-> [access_token  |-> msTokenData.access_token,
                    refresh_token |-> msTokenData.refresh_token,
                    expires_at    |-> now + (msTokenData.expires_in * 1000)],
     minecraft |-> [access_token |-> mcTokenData.access_token,
                    expires_at   |-> now + (mcTokenData.expires_in * 1000)]]

\* completeLoginStep with a failed ticket exchange tried again.
completeLoginStepRetrying(k, r, vars, now) ==
    IF ~r.ok
    THEN IF k = 2
         THEN Await(getXboxLiveTokenRequest(vars.msTokenData.access_token))
         ELSE Fail(r.error)
    ELSE CASE k = 1 -> IF IsObject(r.value)
                       THEN Await(getXboxLiveTokenRequest(r.value.access_token))
                       ELSE Fail(TypeErrorOf(r.value.t))
           [] k = 2 -> IF IsObject(r.value)
                       THEN Await(getXSTSTokenRequest(r.value.Token))
                       ELSE Fail(TypeErrorOf(r.value.t))
           [] k = 3 -> Await(getMinecraftTokenRequest(r.value))
           [] k = 4 -> IF IsObject(r.value)
                       THEN Await(getMinecraftProfileRequest(r.value.access_token))
                       ELSE Fail(TypeErrorOf(r.value.t))
           [] OTHER -> Done(LoginResult(vars.msTokenData, vars.mcTokenData,
                                        r.value, now))

\* The body of completeLogin's try block from the point where stage k has
\* settled with r (Return or Throw).  Reading a property of a null token
\* object throws a TypeError into the catch block.
completeLoginStep(k, r, vars, now) ==
    IF ~r.ok THEN Fail(r.error)
    ELSE CASE k = 1 -> IF IsObject(r.value)
                       THEN Await(getXboxLiveTokenRequest(r.value.access_token))
                       ELSE Fail(TypeErrorOf(r.value.t))
           [] k = 2 -> IF IsObject(r.value)
                       THEN Await(getXSTSTokenRequest(r.value.Token))
                       ELSE Fail(TypeErrorOf(r.value.t))
           [] k = 3 -> Await(getMinecraftTokenRequest(r.value))
           [] k = 4 -> IF IsObject(r.value)
                       THEN Await(getMinecraftProfileRequest(r.value.access_token))
                       ELSE Fail(TypeErrorOf(r.value.t))
           [] OTHER -> Done(LoginResult(vars.msTokenData, vars.mcTokenData,
                                        r.value, now))

\* refreshTokensStep going on to the profile stage, as completeLogin does.
refreshTokensStepWithProfile(k, r, vars, now) ==
    IF ~r.ok THEN Fail(r.error)
    ELSE CASE k = 1 -> IF IsObject(r.value)
                       THEN Await(getXboxLiveTokenRequest(r.value.access_token))
                       ELSE Fail(TypeErrorOf(r.value.t))
           [] k = 2 -> IF IsObject(r.value)
                       THEN Await(getXSTSTokenRequest(r.value.Token))
                       ELSE Fail(TypeErrorOf(r.value.t))
           [] k = 3 -> Await(getMinecraftTokenRequest(r.value))
           [] k = 4 -> IF IsObject(r.value)
                       THEN Await(getMinecraftProfileRequest(r.value.access_token))
                       ELSE Fail(TypeErrorOf(r.value.t))
           [] OTHER -> Done(RefreshResult(vars.msTokenData, vars.mcTokenData, now))

\* The body of refreshTokens' try block from the point where stage k has
\* settled with r.
refreshTokensStep(k, r, vars, now) ==
    IF ~r.ok THEN Fail(r.error)
    ELSE CASE k = 1 -> IF IsObject(r.value)
                       THEN Await(getXboxLiveTokenRequest(r.value.access_token))
                       ELSE Fail(TypeErrorOf(r.value.t))
           [] k = 2 -> IF IsObject(r.value)
                       THEN Await(getXSTSTokenRequest(r.value.Token))
                       ELSE Fail(TypeErrorOf(r.value.t))
           [] k = 3 -> Await(getMinecraftTokenRequest(r.value))
           [] OTHER -> IF IsObject(r.value)
                       THEN Done(RefreshResult(vars.msTokenData, r.value, now))
                       ELSE Fail(TypeErrorOf(r.value.t))

\* EventEmitter.emit('error', error): with no listener it throws the error;
\* otherwise it calls the listeners in order of registration, and a listener
\* that throws ends the emit with its exception.
EmitToListeners(ls, error) ==
    LET throwers == {k \in 1..Len(ls) : ls[k] = "throws"}
        last     == IF throwers = {} THEN Len(ls)
                    ELSE CHOOSE k \in throwers : \A j \in throwers : k <= j
    IN  [called |-> [k \in 1..last |-> [listener |-> k, error |-> error]],
         threw  |-> Len(ls) = 0 \/ throwers # {},
         error  |-> IF Len(ls) = 0 THEN error ELSE ListenerError]

\* The catch block of completeLogin and refreshTokens:
\* this.emit('error', error); throw error;
\* The error the promise rejects with is the one emit throws, if it throws.
CatchBlock(ls, error) ==
    LET emit == EmitToListeners(ls, error)
    IN  [called |-> emit.called,
         thrown |-> IF emit.threw THEN emit.error ELSE error]

\* ------------------------------------------- what the upstream may answer

MicrosoftTokenData ==
    {[t |-> "object", access_token |-> a, refresh_token |-> "rt1", expires_in |-> 3600] :
        a \in {"ms1", "ms2"}}

MicrosoftTokenOutcomes ==
    {Fulfilled(200, d) : d \in MicrosoftTokenData \cup {Null}}
    \cup {HttpError(400, [t |-> "object", error_description |-> "invalid_grant"]),
          HttpError(500, Null),
          NetworkError}

XboxLiveTokenOutcomes ==
    {Fulfilled(200, [t |-> "object", Token |-> x]) : x \in {"xbl1", "xbl2"}}
    \cup {Fulfilled(200, Null),
          HttpError(400, [t |-> "object", message |-> "bad request"]),
          NetworkError}

DisplayClaimsSet ==
    UNION {[1..n -> {[uhs |-> h] : h \in {"uhs1", "uhs2"}}] : n \in 0..MaxClaims}

XSTSTokenOutcomes ==
    {Fulfilled(200, [t |-> "object", Token |-> x, DisplayClaims |-> [xui |-> c]]) :
        x \in {"xsts1"}, c \in DisplayClaimsSet}
    \cup {Fulfilled(200, Null),
          Fulfilled(200, [t |-> "object", Token |-> "xsts1"]),
          HttpError(401, [t |-> "object", XErr |-> XErrNoXboxAccount]),
          HttpError(401, [t |-> "object", XErr |-> XErrRegion]),
          HttpError(401, [t |-> "object", XErr |-> "2148916235"]),
          HttpError(401, [t |-> "object", message |-> "unauthorized"]),
          HttpError(401, JsString("")),
          HttpError(401, Null),
          HttpError(403, [t |-> "object", XErr |-> XErrNoXboxAccount]),
          NetworkError}

MinecraftTokenOutcomes ==
    {Fulfilled(200, [t |-> "object", access_token |-> a, expires_in |-> 86400]) :
        a \in {"mc1", "mc2"}}
    \cup {Fulfilled(200, Null),
          HttpError(403, [t |-> "object", message |-> "forbidden"]),
          NetworkError}

ProfileData ==
    {[t |-> "object", id |-> "uuid1", name |-> "Steve",
      skins |-> <<"skin1">>, capes |-> <<>>],
     [t |-> "object", id |-> "uuid2", name |-> "Alex",
      skins |-> <<>>, capes |-> <<"cape1">>]}

MinecraftProfileOutcomes ==
    {Fulfilled(200, d) : d \in ProfileData}
    \cup {Fulfilled(200, Null),
          Fulfilled(200, [t |-> "object", name |-> "Steve"]),
          Fulfilled(200, [t |-> "object", id |-> "", name |-> "Steve"]),
          HttpError(404, [t |-> "object", error |-> "NOT_FOUND"]),
          HttpError(401, [t |-> "object", message |-> "unauthorized"]),
          HttpError(500, Null),
          NetworkError}

ItemsArrays ==
    UNION {[1..n -> {[t |-> "object", name |-> "game_minecraft"],
                     [t |-> "object", name |-> "product_minecraft"],
                     [t |-> "object"]}] : n \in 0..MaxItems}

EntitlementBodies ==
    {[t |-> "object", items |-> JsArray(a)] : a \in ItemsArrays}
    \cup {Null,
          [t |-> "object"],
          [t |-> "object", items |-> Null],
          [t |-> "object", items |-> JsNumber(0)],
          [t |-> "object", items |-> JsString("none")]}

EntitlementOutcomes ==
    {Fulfilled(200, d) : d \in EntitlementBodies}
    \cup {Fulfilled(204, JsString("")),
          HttpError(401, [t |-> "object", message |-> "unauthorized"]),
          HttpError(500, Null),
          NetworkError}

\* ------------------------------------------------------------- the state

\* The invocations of the provider's methods that are followed.
Invocations == {1}

VARIABLES
    listeners,  \* the 'error' listeners, in order of registration
    clock,      \* Date.now()
    op,         \* op[i]: the method invocation i runs, "none" before it starts
    arg,        \* arg[i]: its argument
    pc,         \* pc[i]: "idle", "await", "catch", "throw", "resolved", "rejected"
    stage,      \* stage[i]: the stage whose network call is in flight
    locals,     \* locals[i]: msTokenData and mcTokenData of the try block
    pending,    \* pending[i]: the error caught ("catch") or being thrown ("throw")
    settled,    \* settled[i]: what the promise resolved or rejected with
    calls,      \* calls[i]: the network requests issued, in order
    responses,  \* responses[i]: what each call was answered with, in order
    issuedAt,   \* issuedAt[i]: the clock when stage 1 and stage 4 returned
    emitted,    \* the emit('error', ...) calls made, in order
    delivered,  \* the listener calls made, in order
    urls        \* what each getAuthorizationUrl() call returned or threw, in order

vars == <<msAuth, listeners, clock, op, arg, pc, stage, locals, pending, settled,
          calls, responses, issuedAt, emitted, delivered, urls>>

NoLocals == [msTokenData |-> Undefined, mcTokenData |-> Undefined]

NotIssued == [msTokenData |-> -1, mcTokenData |-> -1]

\* The options of the README's example.
ExampleOptions == [t |-> "object", clientId |-> ClientId]

\* No method has been called on the instance yet; I is the invocations followed.
NothingCalled(I) ==
    /\ listeners = <<>>
    /\ clock = 0
    /\ op = [i \in I |-> "none"]
    /\ arg = [i \in I |-> ""]
    /\ pc = [i \in I |-> "idle"]
    /\ stage = [i \in I |-> 0]
    /\ locals = [i \in I |-> NoLocals]
    /\ pending = [i \in I |-> Undefined]
    /\ settled = [i \in I |-> Undefined]
    /\ calls = [i \in I |-> <<>>]
    /\ responses = [i \in I |-> <<>>]
    /\ issuedAt = [i \in I |-> NotIssued]
    /\ emitted = <<>>
    /\ delivered = <<>>
    /\ urls = <<>>

\* The provider of the README's example, constructed.
Init ==
    /\ msAuth = [options |-> ExampleOptions, result |-> constructor(ExampleOptions)]
    /\ NothingCalled(Invocations)

\* An async method is called: it runs up to its first await, which issues
\* the first network request.
Start(i, name, a, request) ==
    /\ Constructed
    /\ pc[i] = "idle"
    /\ op' = [op EXCEPT ![i] = name]
    /\ arg' = [arg EXCEPT ![i] = a]
    /\ pc' = [pc EXCEPT ![i] = "await"]
    /\ stage' = [stage EXCEPT ![i] = request.stage]
    /\ calls' = [calls EXCEPT ![i] = Append(@, request)]
    /\ UNCHANGED <<msAuth, listeners, clock, locals, pending, settled, responses,
                   issuedAt, emitted, delivered, urls>>

CompleteLogin(i) ==
    \E authCode \in {"", "code1"} :
        Start(i, "completeLogin", authCode, getMicrosoftTokenRequest(authCode, FALSE))

RefreshTokens(i) ==
    \E refreshToken \in {"rt0"} :
        Start(i, "refreshTokens", refreshToken,
              getMicrosoftTokenRequest(refreshToken, TRUE))

ValidateMinecraftToken(i) ==
    \E accessToken \in {"mc0"} :
        Start(i, "validateMinecraftToken", accessToken, EntitlementRequest(accessToken))

CheckGameOwnership(i) ==
    \E accessToken \in {"mc0"} :
        Start(i, "checkGameOwnership", accessToken, EntitlementRequest(accessToken))

\* The try block of the running method, resumed after stage k settled with r.
TryBlockStep(i, k, r, now) ==
    IF op[i] = "completeLogin"
    THEN completeLoginStep(k, r, locals[i], now)
    ELSE refreshTokensStep(k, r, locals[i], now)

\* StageResponse with msTokenData and mcTokenData kept on the instance, where
\* every invocation writes and reads the same two slots.
StageResponseSharedLocals(i, k, outcome, delay, r) ==
    LET now  == clock + delay
        step == TryBlockStep(i, k, r, now)
    IN  /\ clock' = now
        /\ responses' = [responses EXCEPT ![i] =
                            Append(@, [stage |-> k, outcome |-> outcome])]
        /\ issuedAt' = [issuedAt EXCEPT ![i] =
                           IF r.ok /\ k = 1 THEN [@ EXCEPT !.msTokenData = now]
                           ELSE IF r.ok /\ k = 4 THEN [@ EXCEPT !.mcTokenData = now]
                           ELSE @]
        /\ locals' = [j \in DOMAIN locals |->
                         IF r.ok /\ k = 1 THEN [locals[j] EXCEPT !.msTokenData = r.value]
                         ELSE IF r.ok /\ k = 4 THEN [locals[j] EXCEPT !.mcTokenData = r.value]
                         ELSE locals[j]]
        /\ CASE step.do = "await" ->
                    /\ calls' = [calls EXCEPT ![i] = Append(@, step.request)]
                    /\ stage' = [stage EXCEPT ![i] = step.request.stage]
                    /\ UNCHANGED <<pc, pending, settled>>
             [] step.do = "throw" ->
                    /\ pc' = [pc EXCEPT ![i] = "catch"]
                    /\ pending' = [pending EXCEPT ![i] = step.error]
                    /\ UNCHANGED <<calls, stage, settled>>
             [] OTHER ->
                    /\ pc' = [pc EXCEPT ![i] = "resolved"]
                    /\ settled' = [settled EXCEPT ![i] = step.value]
                    /\ UNCHANGED <<calls, stage, pending>>
        /\ UNCHANGED <<msAuth, listeners, op, arg, emitted, delivered, urls>>

\* The network call of stage k of invocation i is answered with outcome
\* after delay; the stage function settles with r and the method runs on to
\* its next await, its catch block or its return.
StageResponse(i, k, outcome, delay, r) ==
    LET now  == clock + delay
        step == TryBlockStep(i, k, r, now)
    IN  /\ clock' = now
        /\ responses' = [responses EXCEPT ![i] =
                            Append(@, [stage |-> k, outcome |-> outcome])]
        /\ issuedAt' = [issuedAt EXCEPT ![i] =
                           IF r.ok /\ k = 1 THEN [@ EXCEPT !.msTokenData = now]
                           ELSE IF r.ok /\ k = 4 THEN [@ EXCEPT !.mcTokenData = now]
                           ELSE @]
        /\ locals' = [locals EXCEPT ![i] =
                         IF r.ok /\ k = 1 THEN [@ EXCEPT !.msTokenData = r.value]
                         ELSE IF r.ok /\ k = 4 THEN [@ EXCEPT !.mcTokenData = r.value]
                         ELSE @]
        /\ CASE step.do = "await" ->
                    /\ calls' = [calls EXCEPT ![i] = Append(@, step.request)]
                    /\ stage' = [stage EXCEPT ![i] = step.request.stage]
                    /\ UNCHANGED <<pc, pending, settled>>
             [] step.do = "throw" ->
                    /\ pc' = [pc EXCEPT ![i] = "catch"]
                    /\ pending' = [pending EXCEPT ![i] = step.error]
                    /\ UNCHANGED <<calls, stage, settled>>
             [] OTHER ->
                    /\ pc' = [pc EXCEPT ![i] = "resolved"]
                    /\ settled' = [settled EXCEPT ![i] = step.value]
                    /\ UNCHANGED <<calls, stage, pending>>
        /\ UNCHANGED <<msAuth, listeners, op, arg, emitted, delivered, urls>>

\* What the stage function of stage k makes of a network outcome.
StageResult(k, outcome) ==
    CASE k = 1 -> getMicrosoftToken(outcome)
      [] k = 2 -> getXboxLiveToken(outcome)
      [] k = 3 -> getXSTSToken(outcome)
      [] k = 4 -> getMinecraftToken(outcome)
      [] OTHER -> getMinecraftProfile(outcome)

\* How long a round trip may take from now.
Delays == 0..(MaxClock - clock)

InFlight(i, k) ==
    /\ pc[i] = "await"
    /\ stage[i] = k
    /\ op[i] \in {"completeLogin", "refreshTokens"}

MicrosoftTokenResponse(i) ==
    /\ InFlight(i, 1)
    /\ \E outcome \in MicrosoftTokenOutcomes, delay \in Delays :
           StageResponse(i, 1, outcome, delay, getMicrosoftToken(outcome))

XboxLiveTokenResponse(i) ==
    /\ InFlight(i, 2)
    /\ \E outcome \in XboxLiveTokenOutcomes, delay \in Delays :
           StageResponse(i, 2, outcome, delay, getXboxLiveToken(outcome))

XSTSTokenResponse(i) ==
    /\ InFlight(i, 3)
    /\ \E outcome \in XSTSTokenOutcomes, delay \in Delays :
           StageResponse(i, 3, outcome, delay, getXSTSToken(outcome))

MinecraftTokenResponse(i) ==
    /\ InFlight(i, 4)
    /\ \E outcome \in MinecraftTokenOutcomes, delay \in Delays :
           StageResponse(i, 4, outcome, delay, getMinecraftToken(outcome))

MinecraftProfileResponse(i) ==
    /\ InFlight(i, 5)
    /\ \E outcome \in MinecraftProfileOutcomes, delay \in Delays :
           StageResponse(i, 5, outcome, delay, getMinecraftProfile(outcome))

\* The catch block of completeLogin/refreshTokens runs: emit, then throw.
EmitError(i) ==
    /\ pc[i] = "catch"
    /\ LET c == CatchBlock(listeners, pending[i])
       IN  /\ emitted' = Append(emitted, [inv |-> i, error |-> pending[i]])
           /\ delivered' = delivered \o c.called
           /\ pending' = [pending EXCEPT ![i] = c.thrown]
    /\ pc' = [pc EXCEPT ![i] = "throw"]
    /\ UNCHANGED <<msAuth, listeners, clock, op, arg, stage, locals, settled,
                   calls, responses, issuedAt, urls>>

\* Reject, with a promise that can be rejected again and then loses its error.
RejectAgain(i) ==
    /\ pc[i] \in {"throw", "rejected"}
    /\ pc' = [pc EXCEPT ![i] = "rejected"]
    /\ settled' = [settled EXCEPT ![i] = IF pc[i] = "throw" THEN pending[i]
                                         ELSE Undefined]
    /\ UNCHANGED <<msAuth, listeners, clock, op, arg, stage, locals, pending,
                   calls, responses, issuedAt, emitted, delivered, urls>>

\* The exception leaves the async method: its promise rejects.
Reject(i) ==
    /\ pc[i] = "throw"
    /\ pc' = [pc EXCEPT ![i] = "rejected"]
    /\ settled' = [settled EXCEPT ![i] = pending[i]]
    /\ UNCHANGED <<msAuth, listeners, clock, op, arg, stage, locals, pending,
                   calls, responses, issuedAt, emitted, delivered, urls>>

\* The entitlement check, reporting the failure it swallows on the channel.
EntitlementResponseEmitting(i) ==
    /\ pc[i] = "await"
    /\ stage[i] = 6
    /\ \E outcome \in EntitlementOutcomes, delay \in Delays :
           /\ clock' = clock + delay
           /\ responses' = [responses EXCEPT ![i] =
                   Append(@, [stage |-> 6, outcome |-> outcome])]
           /\ settled' = [settled EXCEPT ![i] =
                   IF op[i] = "validateMinecraftToken"
                   THEN validateMinecraftToken(outcome)
                   ELSE checkGameOwnership(outcome)]
           /\ emitted' = IF outcome.ok THEN emitted
                         ELSE Append(emitted, [inv |-> i, error |-> NewError(outcome.message)])
    /\ pc' = [pc EXCEPT ![i] = "resolved"]
    /\ UNCHANGED <<msAuth, listeners, op, arg, stage, locals, pending, calls,
                   issuedAt, delivered, urls>>

\* The entitlement GET of validateMinecraftToken / checkGameOwnership is
\* answered: both methods resolve, with whatever their body evaluates to.
EntitlementResponse(i) ==
    /\ pc[i] = "await"
    /\ stage[i] = 6
    /\ \E outcome \in EntitlementOutcomes, delay \in Delays :
           /\ clock' = clock + delay
           /\ responses' = [responses EXCEPT ![i] =
                   Append(@, [stage |-> 6, outcome |-> outcome])]
           /\ settled' = [settled EXCEPT ![i] =
                   IF op[i] = "validateMinecraftToken"
                   THEN validateMinecraftToken(outcome)
                   ELSE checkGameOwnership(outcome)]
    /\ pc' = [pc EXCEPT ![i] = "resolved"]
    /\ UNCHANGED <<msAuth, listeners, op, arg, stage, locals, pending, calls,
                   issuedAt, emitted, delivered, urls>>

\* on('error', listener): a listener is registered.  The catch block runs
\* emit and throw in one synchronous run, so none is registered in between.
On ==
    /\ Len(listeners) < MaxListeners
    /\ Constructed
    /\ \A i \in DOMAIN pc : pc[i] # "throw"
    /\ \E behaviour \in {"returns", "throws"} :
           listeners' = Append(listeners, behaviour)
    /\ UNCHANGED <<msAuth, clock, op, arg, pc, stage, locals, pending, settled,
                   calls, responses, issuedAt, emitted, delivered, urls>>

Next ==
    \/ On
    \/ \E i \in Invocations :
        \/ CompleteLogin(i)
        \/ RefreshTokens(i)
        \/ CheckGameOwnership(i)
        \/ ValidateMinecraftToken(i)
        \/ MicrosoftTokenResponse(i)
        \/ XboxLiveTokenResponse(i)
        \/ XSTSTokenResponse(i)
        \/ MinecraftTokenResponse(i)
        \/ MinecraftProfileResponse(i)
        \/ EntitlementResponse(i)
        \/ EmitError(i)
        \/ Reject(i)

Spec == Init /\ [][Next]_vars

\* ------------------- the whole interface, from construction on

\* The most getAuthorizationUrl() calls followed.
MaxUrlCalls == 2

\* A redirect URI with a query, and one that ends in half a surrogate pair.
CustomRedirectUri == <<"app", ":", "/", "/", "cb", "?", "U+D83D", "U+DE00">>

MalformedRedirectUri == <<"app", ":", "cb", "U+D83D">>

\* What `new MicrosoftAuthProvider(...)` may be given.
OptionsSet ==
    {Undefined, Null,
     [t |-> "object"],
     [t |-> "object", clientId |-> ""],
     [t |-> "object", clientId |-> "", redirectUri |-> CustomRedirectUri],
     [t |-> "object", redirectUri |-> CustomRedirectUri],
     [t |-> "object", clientId |-> ClientId],
     [t |-> "object", clientId |-> ClientId, redirectUri |-> <<>>],
     [t |-> "object", clientId |-> ClientId, redirectUri |-> CustomRedirectUri],
     [t |-> "object", clientId |-> ClientId, redirectUri |-> MalformedRedirectUri]}

\* const msAuth = new MicrosoftAuthProvider(options)
New ==
    /\ msAuth = Undefined
    /\ \E options \in OptionsSet :
           msAuth' = [options |-> options, result |-> constructor(options)]
    /\ UNCHANGED <<listeners, clock, op, arg, pc, stage, locals, pending, settled,
                   calls, responses, issuedAt, emitted, delivered, urls>>

\* msAuth.getAuthorizationUrl(): synchronous, it returns or throws at once.
GetAuthorizationUrl ==
    /\ Constructed
    /\ Len(urls) < MaxUrlCalls
    /\ urls' = Append(urls, getAuthorizationUrl)
    /\ UNCHANGED <<msAuth, listeners, clock, op, arg, pc, stage, locals, pending,
                   settled, calls, responses, issuedAt, emitted, delivered>>

\* A few of the answers of each stage: two users that get through, a failed
\* request, an answer the stage rejects and a 2xx answer with a null body.
Answers(k) ==
    CASE k = 1 -> {o \in MicrosoftTokenOutcomes :
                       IF o.ok THEN IsObject(o.data) ELSE o = HttpError(500, Null)}
      [] k = 2 -> {o \in XboxLiveTokenOutcomes :
                       o.ok /\ IsObject(o.data) /\ o.data.Token = "xbl1"}
      [] k = 3 -> {Fulfilled(200, [t |-> "object", Token |-> "xsts1",
                                   DisplayClaims |-> [xui |-> <<[uhs |-> "uhs1"]>>]]),
                   HttpError(401, [t |-> "object", XErr |-> XErrRegion])}
      [] k = 4 -> {o \in MinecraftTokenOutcomes : o.ok}
      [] OTHER -> {o \in MinecraftProfileOutcomes :
                       IF o.ok THEN IsObject(o.data) /\ "id" \in DOMAIN o.data
                                    /\ o.data.id = "uuid2"
                       ELSE o = NetworkError}

\* The call in flight of invocation i is answered.
StageAnswered(i) ==
    \E k \in 1..5 :
        /\ InFlight(i, k)
        /\ \E outcome \in Answers(k), delay \in Delays :
               StageResponse(i, k, outcome, delay, StageResult(k, outcome))

\* Nothing is constructed yet.
InterfaceInit ==
    /\ msAuth = Undefined
    /\ NothingCalled(Invocations)

InterfaceNext ==
    \/ New
    \/ GetAuthorizationUrl
    \/ On
    \/ \E i \in Invocations :
        \/ CompleteLogin(i)
        \/ RefreshTokens(i)
        \/ CheckGameOwnership(i)
        \/ ValidateMinecraftToken(i)
        \/ StageAnswered(i)
        \/ EntitlementResponse(i)
        \/ EmitError(i)
        \/ Reject(i)

InterfaceSpec == InterfaceInit /\ [][InterfaceNext]_vars

\* ------------------------------------------- two invocations that overlap

\* The invocations followed when they overlap: the first is a login, the
\* second any of the four asynchronous methods.
Concurrent == {1, 2}

\* The provider of the README's example, constructed, with no listener.
ConcurrentInit ==
    /\ msAuth = [options |-> ExampleOptions, result |-> constructor(ExampleOptions)]
    /\ NothingCalled(Concurrent)

ConcurrentNext ==
    \/ CompleteLogin(1)
    \/ CompleteLogin(2)
    \/ RefreshTokens(2)
    \/ CheckGameOwnership(2)
    \/ ValidateMinecraftToken(2)
    \/ \E i \in Concurrent :
        \/ StageAnswered(i)
        \/ EntitlementResponse(i)
        \/ EmitError(i)
        \/ Reject(i)

ConcurrentSpec == ConcurrentInit /\ [][ConcurrentNext]_vars

\* ------------------------------------- a login and a refresh that must end

\* The call in flight of invocation i is answered, in no time.
AnsweredAtOnce(i) ==
    \E k \in 1..5 :
        /\ InFlight(i, k)
        /\ \E outcome \in Answers(k) :
               StageResponse(i, k, outcome, 0, StageResult(k, outcome))

\* A login and a refresh that overlap, while listeners are registered.
SettlementNext ==
    \/ On
    \/ CompleteLogin(1)
    \/ RefreshTokens(2)
    \/ \E i \in Concurrent :
        \/ AnsweredAtOnce(i)
        \/ EmitError(i)
        \/ Reject(i)

\* Every call issued is answered in the end, and an async method that can
\* run on (it is in its catch block, or about to leave it) does run on.
Fairness ==
    \A i \in Concurrent :
        /\ WF_vars(AnsweredAtOnce(i))
        /\ WF_vars(EmitError(i))
        /\ WF_vars(Reject(i))

FairSpec == ConcurrentInit /\ [][SettlementNext]_vars /\ Fairness

\* ------------------------------------------------------------ the claims

\* Invocation i runs one of the two pipelines.
Pipeline(i) == op[i] \in {"completeLogin", "refreshTokens"}

\* The n-th answered call of invocation i was for a stage that succeeded.
Succeeded(i, n) ==
    StageResult(responses[i][n].stage, responses[i][n].outcome).ok

\* C1: in every invocation of completeLogin and refreshTokens the n-th
\* network call is the call of stage n (so the stages are called in order and
\* each at most once), at most one call is in flight, the call of stage n is
\* issued only when the calls of stages 1..n-1 were answered and those stages
\* succeeded, and once a stage has failed no further call is on record.
C1_StrictlyForward ==
    \A i \in Invocations :
        Pipeline(i) =>
            /\ \A n \in 1..Len(calls[i]) : calls[i][n].stage = n
            /\ Len(responses[i]) <= Len(calls[i])
            /\ Len(calls[i]) <= Len(responses[i]) + 1
            /\ \A n \in 1..Len(responses[i]) : responses[i][n].stage = n
            /\ \A n \in 1..Len(calls[i]) :
                   \A m \in 1..(n - 1) : m <= Len(responses[i]) /\ Succeeded(i, m)
            /\ \A n \in 1..Len(responses[i]) :
                   ~Succeeded(i, n) =>
                       /\ Len(calls[i]) = n
                       /\ pc[i] \in {"catch", "throw", "rejected"}

\* A login whose third stage failed: three calls on record, no fourth.
C1_Witness ==
    \E i \in Invocations :
        /\ op[i] = "completeLogin"
        /\ pc[i] = "rejected"
        /\ Len(responses[i]) = 3
        /\ Succeeded(i, 1) /\ Succeeded(i, 2) /\ ~Succeeded(i, 3)
        /\ Len(calls[i]) = 3

\* C3: an invocation of refreshTokens only ever calls stages 1 to 4; the
\* profile stage (5) is on record for none, whether it resolves or rejects.
C3_RefreshNeverFetchesProfile ==
    \A i \in Invocations :
        op[i] = "refreshTokens" =>
            \A n \in 1..Len(calls[i]) : calls[i][n].stage \in 1..4

\* A refresh that went through all of its stages and resolved.
C3_Witness ==
    \E i \in Invocations :
        /\ op[i] = "refreshTokens"
        /\ pc[i] = "resolved"
        /\ Len(calls[i]) = 4

\* The data the upstream answered the n-th call of invocation i with.
Answer(i, n) == responses[i][n].outcome.data

\* Invocation i is a pipeline whose stages 1..n were all answered and succeeded.
AllSucceeded(i, n) ==
    /\ Pipeline(i)
    /\ Len(responses[i]) = n
    /\ \A m \in 1..n : Succeeded(i, m)

\* C10: when all five stages of a completeLogin have succeeded, it has
\* resolved, and in its result profile.id and profile.name are the id and
\* name the profile endpoint answered, user.uuid is profile.id, user.username
\* is profile.name, the microsoft access and refresh tokens are those stage 1
\* was answered with and the minecraft access token the one of stage 4.
C10_LoginResult ==
    \A i \in Invocations :
        (op[i] = "completeLogin" /\ AllSucceeded(i, 5)) =>
            /\ pc[i] = "resolved"
            /\ settled[i].profile.id = Answer(i, 5).id
            /\ settled[i].profile.name = Answer(i, 5).name
            /\ settled[i].user.uuid = settled[i].profile.id
            /\ settled[i].user.username = settled[i].profile.name
            /\ settled[i].microsoft.access_token = Answer(i, 1).access_token
            /\ settled[i].microsoft.refresh_token = Answer(i, 1).refresh_token
            /\ settled[i].minecraft.access_token = Answer(i, 4).access_token

\* A login that resolved for the profile of Alex.
C10_Witness ==
    \E i \in Invocations :
        /\ op[i] = "completeLogin"
        /\ AllSucceeded(i, 5)
        /\ pc[i] = "resolved"
        /\ settled[i].user.username = "Alex"

\* C9, as claimed: in the result of completeLogin and refreshTokens the
\* microsoft expires_at is the clock when stage 1 returned plus
\* expires_in * 1000, and the minecraft expires_at is the clock when stage 4
\* returned plus expires_in * 1000, however long the later stages take.
C9_ExpiryFromIssueTime ==
    \A i \in Invocations :
        (Pipeline(i) /\ pc[i] = "resolved") =>
            /\ settled[i].microsoft.expires_at
                   = issuedAt[i].msTokenData + (Answer(i, 1).expires_in * 1000)
            /\ settled[i].minecraft.expires_at
                   = issuedAt[i].mcTokenData + (Answer(i, 4).expires_in * 1000)

\* The errors emit('error', ...) was called with for invocation i.
EmittedFor(i) == SelectSeq(emitted, LAMBDA e : e.inv = i)

\* C2, as claimed: every rejection of completeLogin or refreshTokens was
\* emitted exactly once on the 'error' channel, before the promise rejected,
\* and the emitted error is the error the promise rejected with.
C2_RejectionEmittedOnce ==
    \A i \in Invocations :
        (Pipeline(i) /\ pc[i] = "rejected") =>
            /\ Len(EmittedFor(i)) = 1
            /\ EmittedFor(i)[1].error = settled[i]

\* The security-token stage of invocation i was answered 401 with code
\* 2148916233.
NoXboxAccountAnswer(i) ==
    /\ Len(responses[i]) = 3
    /\ responses[i][3].outcome
           = HttpError(401, [t |-> "object", XErr |-> XErrNoXboxAccount])

\* C4, as claimed: when stage 3 of a completeLogin is answered 401 with code
\* 2148916233, stages 4 and 5 are never called and the promise rejects with
\* the error that names no_xbox_account.
C4_NoXboxAccount ==
    \A i \in Invocations :
        (op[i] = "completeLogin" /\ NoXboxAccountAnswer(i)) =>
            /\ Len(calls[i]) = 3
            /\ pc[i] \in {"catch", "throw", "rejected"}
            /\ pc[i] = "rejected" =>
                   settled[i] = NewError(<<MsgNoXboxAccount, ErrorCode.NO_XBOX_ACCOUNT>>)

\* The profile stage of invocation i was answered 200 with a body that has
\* no id.
NoIdAnswer(i) ==
    /\ Len(responses[i]) = 5
    /\ responses[i][5].outcome.ok
    /\ responses[i][5].outcome.status = 200
    /\ "id" \notin DOMAIN Answer(i, 5)

\* C5, as claimed: when stage 5 is answered 200 with a body without id,
\* completeLogin rejects with the dedicated no-license error, not with the
\* generic "profile fetch failed" error.  (Stated where no listener throws,
\* so that the rejection is the error of the stage.)
C5_NoIdIsNoLicense ==
    \A i \in Invocations :
        (/\ op[i] = "completeLogin"
         /\ NoIdAnswer(i)
         /\ pc[i] = "rejected"
         /\ \A k \in 1..Len(listeners) : listeners[k] # "throws") =>
            /\ settled[i].message[1] # MsgProfileFailed
            /\ settled[i] = NewError(<<MsgNoProfile, ErrorCode.NO_MINECRAFT>>)

\* The outcome the entitlement GET of invocation i was answered with.
EntitlementOutcome(i) == responses[i][1].outcome

\* A body that is no entitlement list: null, without items, or with items
\* that is no collection.
Malformed(data) ==
    \/ ~IsObject(data)
    \/ "items" \notin DOMAIN data
    \/ data.items.t # "array"

\* C6, as claimed: validateMinecraftToken and checkGameOwnership never
\* reject, and when the transport raises, the status is not 2xx or the body
\* is malformed, they resolve with the boolean false.
C6_DegradeToFalse ==
    \A i \in Invocations :
        op[i] \in {"validateMinecraftToken", "checkGameOwnership"} =>
            /\ pc[i] \in {"await", "resolved"}
            /\ pc[i] = "resolved" =>
                   ((~EntitlementOutcome(i).ok \/ Malformed(EntitlementOutcome(i).data))
                        => settled[i] = JsBool(FALSE))

\* C7, as claimed: validateMinecraftToken resolves with true exactly when
\* the entitlement GET was answered with a 2xx status.
C7_TrueIffSuccess ==
    \A i \in Invocations :
        (op[i] = "validateMinecraftToken" /\ pc[i] = "resolved") =>
            settled[i] = JsBool(EntitlementOutcome(i).ok)

\* C7, amended: validateMinecraftToken resolves with true exactly when the
\* entitlement GET was answered with status 200, and with false for every
\* other outcome, the other 2xx statuses included.
C7_TrueIffStatus200 ==
    \A i \in Invocations :
        (op[i] = "validateMinecraftToken" /\ pc[i] = "resolved") =>
            /\ settled[i].t = "boolean"
            /\ settled[i].bool
                   <=> (EntitlementOutcome(i).ok /\ EntitlementOutcome(i).status = 200)

\* A validation answered 204: fulfilled, and resolved with false.
C7_Witness ==
    \E i \in Invocations :
        /\ op[i] = "validateMinecraftToken"
        /\ pc[i] = "resolved"
        /\ EntitlementOutcome(i).ok
        /\ EntitlementOutcome(i).status = 204
        /\ settled[i] = JsBool(FALSE)

\* The body holds an items array with an entry named game_minecraft.
OwnsGame(outcome) ==
    /\ outcome.ok
    /\ IsObject(outcome.data)
    /\ "items" \in DOMAIN outcome.data
    /\ outcome.data.items.t = "array"
    /\ \E k \in 1..Len(outcome.data.items.elems) :
           /\ "name" \in DOMAIN outcome.data.items.elems[k]
           /\ outcome.data.items.elems[k].name = "game_minecraft"

AnswersOf(i) == [n \in 1..Len(responses[i]) |-> responses[i][n].outcome]

\* A pipeline that runs alone, from the point where it issues request, its
\* earlier calls being issued and its saved tokens saved: its calls when the
\* answers are used up, and what it does then (it awaits, throws or returns).
RECURSIVE AloneFrom(_, _, _, _, _, _)
AloneFrom(name, answers, request, saved, issued, now) ==
    LET n == Len(issued) + 1
        k == request.stage
        r == StageResult(k, answers[n])
        step == IF name = "completeLogin"
                THEN completeLoginStep(k, r, saved, now)
                ELSE refreshTokensStep(k, r, saved, now)
        kept == IF r.ok /\ k = 1 THEN [saved EXCEPT !.msTokenData = r.value]
                ELSE IF r.ok /\ k = 4 THEN [saved EXCEPT !.mcTokenData = r.value]
                ELSE saved
    IN  IF n > Len(answers)
        THEN [calls |-> Append(issued, request), step |-> Await(request)]
        ELSE IF step.do = "await"
        THEN AloneFrom(name, answers, step.request, kept, Append(issued, request), now)
        ELSE [calls |-> Append(issued, request), step |-> step]

\* Method name called with argument a on a provider nothing else runs on,
\* its calls answered with answers and its return made at time now.
Alone(name, a, answers, now) ==
    IF name \in {"completeLogin", "refreshTokens"}
    THEN AloneFrom(name, answers, getMicrosoftTokenRequest(a, name = "refreshTokens"),
                   NoLocals, <<>>, now)
    ELSE [calls |-> <<EntitlementRequest(a)>>,
          step  |-> IF answers = <<>> THEN Await(EntitlementRequest(a))
                    ELSE IF name = "validateMinecraftToken"
                    THEN Done(validateMinecraftToken(answers[1]))
                    ELSE Done(checkGameOwnership(answers[1]))]

\* C11: whatever the interleaving of two invocations, each one has issued
\* the calls, and has the result or the error, that the same method has when
\* it runs alone with the same argument and the same answers (its return made
\* at some time up to now, its error emitted to the listeners of some moment).
C11_AsIfAlone ==
    \A i \in DOMAIN pc :
        op[i] # "none" =>
            \E now \in 0..clock :
                LET alone == Alone(op[i], arg[i], AnswersOf(i), now)
                IN  /\ calls[i] = alone.calls
                    /\ pc[i] = "await" <=> alone.step.do = "await"
                    /\ pc[i] = "resolved" <=> alone.step.do = "return"
                    /\ pc[i] \in {"catch", "throw", "rejected"} <=> alone.step.do = "throw"
                    /\ pc[i] = "resolved" => settled[i] = alone.step.value
                    /\ pc[i] = "catch" => pending[i] = alone.step.error
                    /\ pc[i] = "rejected" =>
                           \E n \in 0..Len(listeners) :
                               settled[i] = CatchBlock(SubSeq(listeners, 1, n),
                                                       alone.step.error).thrown

\* Two logins of two users, the second one's token exchange answered between
\* two answers of the first: each resolved with its own tokens.
C11_Witness ==
    /\ DOMAIN pc = Concurrent
    /\ op[1] = "completeLogin" /\ op[2] = "completeLogin"
    /\ pc[1] = "resolved" /\ pc[2] = "resolved"
    /\ issuedAt[1].msTokenData < issuedAt[2].msTokenData
    /\ issuedAt[2].msTokenData < issuedAt[1].mcTokenData
    /\ settled[1].microsoft.access_token = "ms1"
    /\ settled[2].microsoft.access_token = "ms2"

\* ------------------------------------ construction and the authorization URL

\* The options given name no clientId: there are none, or clientId is missing
\* or empty.
NoClientId(options) ==
    \/ options.t \in {"undefined", "null"}
    \/ "clientId" \notin DOMAIN options
    \/ options.clientId = ""

\* C12: a construction with no options, or with a missing or empty clientId,
\* has thrown; as long as no construction has returned an instance no method
\* has been called and no network call issued; an instance has the non-empty
\* clientId of its options, and that is the client_id of every token request.
C12_NoInstanceWithoutClientId ==
    /\ "result" \in DOMAIN msAuth =>
           /\ NoClientId(msAuth.options) => ~msAuth.result.ok
           /\ msAuth.result.ok =>
                  /\ this.clientId # ""
                  /\ this.clientId = msAuth.options.clientId
    /\ ~Constructed =>
           /\ \A i \in DOMAIN pc : op[i] = "none" /\ calls[i] = <<>>
           /\ urls = <<>>
    /\ \A i \in DOMAIN pc :
           \A n \in 1..Len(calls[i]) :
               calls[i][n].stage = 1 => calls[i][n].client_id # ""

\* A construction with an empty clientId (and a redirect URI) that threw.
C12_Witness ==
    /\ "result" \in DOMAIN msAuth
    /\ IsObject(msAuth.options)
    /\ "clientId" \in DOMAIN msAuth.options
    /\ msAuth.options.clientId = ""
    /\ "redirectUri" \in DOMAIN msAuth.options
    /\ msAuth.result = Throw(NewError(<<MsgClientIdRequired>>))
    /\ \A i \in DOMAIN pc : calls[i] = <<>>

\* C13, as claimed: no getAuthorizationUrl() call has thrown, and all the
\* calls made on one instance returned the same string.
C13_UrlNeverFailsAndIsStable ==
    \A n \in 1..Len(urls) :
        /\ urls[n].ok
        /\ urls[n] = urls[1]

\* ------------------------------------------------------ the stages' errors

\* The error the failed stage of invocation i threw: the one the catch block
\* of the method caught, which is the one it passed to emit.
StageError(i) ==
    IF pc[i] = "catch" THEN pending[i] ELSE EmittedFor(i)[1].error

Failing(i) == Pipeline(i) /\ pc[i] \in {"catch", "throw", "rejected"}

\* The outcome is a 401 that carries one of the two codes stage 3 tells apart.
CodedUnauthorized(o) ==
    /\ ~o.ok
    /\ HasResponse(o)
    /\ o.response.status = 401
    /\ IsObject(o.response.data)
    /\ "XErr" \in DOMAIN o.response.data
    /\ o.response.data.XErr \in {XErrNoXboxAccount, XErrRegion}

\* The upstream answered with a body that has a message.
HasUpstreamMessage(o) ==
    /\ ~o.ok
    /\ HasResponse(o)
    /\ IsObject(o.response.data)
    /\ "message" \in DOMAIN o.response.data

\* C14, as claimed: when stage 3 has failed and its answer is no 401 with
\* code 2148916233 or 2148916238, the error of the stage is the generic
\* "security token exchange failed" error, and it carries the message of the
\* upstream body when there is one.
C14_OtherFailuresAreGeneric ==
    \A i \in Invocations :
        (/\ Failing(i)
         /\ Len(responses[i]) = 3
         /\ ~Succeeded(i, 3)
         /\ ~CodedUnauthorized(responses[i][3].outcome)) =>
            /\ StageError(i).name = "Error"
            /\ Head(StageError(i).message) = MsgXSTSTokenFailed
            /\ HasUpstreamMessage(responses[i][3].outcome) =>
                   StageError(i).message
                       = <<MsgXSTSTokenFailed, responses[i][3].outcome.response.data.message>>

\* The security-token stage of invocation i was answered 401 with code
\* 2148916238.
RegionAnswer(i) ==
    /\ Len(responses[i]) = 3
    /\ responses[i][3].outcome = HttpError(401, [t |-> "object", XErr |-> XErrRegion])

\* C15, as claimed: when stage 3 is answered 401 with code 2148916238, stage
\* 3 was called once, stages 4 and 5 are never called, and the invocation
\* rejects with the unsupported-region error, which is neither the
\* no_xbox_account error nor the generic error of the stage.
C15_UnsupportedRegion ==
    \A i \in Invocations :
        (Pipeline(i) /\ RegionAnswer(i)) =>
            /\ Len(calls[i]) = 3
            /\ pc[i] \in {"catch", "throw", "rejected"}
            /\ pc[i] = "rejected" =>
                   /\ settled[i] = NewError(<<MsgRegion>>)
                   /\ Head(settled[i].message) \notin {MsgNoXboxAccount, MsgXSTSTokenFailed}

\* C16: when the profile call has failed (the transport raised, or the status
\* was not 2xx), the error of stage 5 is the no-license error if the status
\* is 404, and the generic "profile fetch failed" error otherwise.
C16_ProfileFailureKinds ==
    \A i \in Invocations :
        (/\ Failing(i)
         /\ Len(responses[i]) = 5
         /\ ~responses[i][5].outcome.ok) =>
            IF /\ HasResponse(responses[i][5].outcome)
               /\ responses[i][5].outcome.response.status = 404
            THEN StageError(i) = NewError(<<MsgNotPurchased, ErrorCode.NO_MINECRAFT>>)
            ELSE /\ StageError(i).name = "Error"
                 /\ Head(StageError(i).message) = MsgProfileFailed
                 /\ ErrorCode.NO_MINECRAFT \notin
                        {StageError(i).message[n] : n \in 1..Len(StageError(i).message)}

\* A login whose profile call was answered 404 and that rejected, the error
\* of the stage being the no-license error; a listener was registered.
C16_Witness ==
    \E i \in Invocations :
        /\ op[i] = "completeLogin"
        /\ pc[i] = "rejected"
        /\ Len(responses[i]) = 5
        /\ ~responses[i][5].outcome.ok
        /\ HasResponse(responses[i][5].outcome)
        /\ responses[i][5].outcome.response.status = 404
        /\ Len(listeners) > 0
        /\ StageError(i) = NewError(<<MsgNotPurchased, ErrorCode.NO_MINECRAFT>>)

\* ------------------------------------------------------ what the calls carry

\* C17: in every invocation of completeLogin and refreshTokens the call of
\* stage 2 carries the access token stage 1 was answered with, the call of
\* stage 3 the token of stage 2, the call of stage 4 the token of stage 3 with
\* the user hash of the first entry of its claims, and the call of stage 5 the
\* access token of stage 4.
C17_EachStageFedByPrevious ==
    \A i \in Invocations :
        Pipeline(i) =>
            \A n \in 2..Len(calls[i]) :
                CASE n = 2 ->
                        calls[i][n].RpsTicket = <<"d=", Answer(i, 1).access_token>>
                  [] n = 3 ->
                        calls[i][n].UserTokens = <<Answer(i, 2).Token>>
                  [] n = 4 ->
                        calls[i][n].identityToken
                            = <<"XBL3.0 x=", Answer(i, 3).DisplayClaims.xui[1].uhs,
                                ";", Answer(i, 3).Token>>
                  [] OTHER ->
                        calls[i][n].Authorization
                            = <<"Bearer ", Answer(i, 4).access_token>>

\* A login that got to its profile call, stage 3 having answered two claims
\* with different user hashes.
C17_Witness ==
    \E i \in Invocations :
        /\ op[i] = "completeLogin"
        /\ Len(calls[i]) = 5
        /\ Len(Answer(i, 3).DisplayClaims.xui) = 2
        /\ Answer(i, 3).DisplayClaims.xui[1].uhs = "uhs2"
        /\ Answer(i, 3).DisplayClaims.xui[2].uhs = "uhs1"
        /\ Answer(i, 1).access_token = "ms2"
        /\ Answer(i, 4).access_token = "mc2"

\* C18: the first call of every refreshTokens is the token request with
\* grant_type refresh_token, the refresh token it was given and no
\* redirect_uri; the first call of every completeLogin is the token request
\* with grant_type authorization_code, the code it was given, empty or not,
\* and the redirect URI of the instance.
C18_GrantByFlow ==
    \A i \in DOMAIN pc :
        Pipeline(i) =>
            /\ calls[i][1].stage = 1
            /\ calls[i][1].client_id = this.clientId
            /\ op[i] = "refreshTokens" =>
                   /\ calls[i][1].grant_type = "refresh_token"
                   /\ calls[i][1].refresh_token = arg[i]
                   /\ DOMAIN calls[i][1] \cap {"code", "redirect_uri"} = {}
            /\ op[i] = "completeLogin" =>
                   /\ calls[i][1].grant_type = "authorization_code"
                   /\ calls[i][1].code = arg[i]
                   /\ calls[i][1].redirect_uri = this.redirectUri
                   /\ "refresh_token" \notin DOMAIN calls[i][1]

\* A login with an empty code on an instance with a redirect URI of its own:
\* the token request was issued and answered.
C18_Witness ==
    \E i \in DOMAIN pc :
        /\ op[i] = "completeLogin"
        /\ arg[i] = ""
        /\ this.redirectUri = CustomRedirectUri
        /\ Len(responses[i]) >= 1
        /\ calls[i][1].code = ""

\* ------------------------------------------------------------- settlement

Settled(i) == pc[i] \in {"resolved", "rejected"}

\* The number of stages of the pipeline invocation i runs.
LastStage(i) == IF op[i] = "completeLogin" THEN 5 ELSE 4

\* Every invocation of a pipeline settles in the end.
EventuallySettles ==
    \A i \in Concurrent : [](Pipeline(i) => <>Settled(i))

\* A settled invocation stays as it settled.
SettlesOnce ==
    [][\A i \in DOMAIN pc :
           Settled(i) => (pc'[i] = pc[i] /\ settled'[i] = settled[i])]_vars

\* One of the stages of invocation i failed.
SomeStageFailed(i) == \E n \in 1..Len(responses[i]) : ~Succeeded(i, n)

\* One of the stages of invocation i was answered 2xx with a body that is no
\* object, which makes the read of the token in it throw.
SomeBodyUnreadable(i) ==
    \E n \in 1..Len(responses[i]) :
        /\ Succeeded(i, n)
        /\ ~IsObject(StageResult(responses[i][n].stage, responses[i][n].outcome).value)

C20_NoEventWhenStagesSucceed ==
    \A i \in DOMAIN pc :
        /\ AllSucceeded(i, LastStage(i)) => EmittedFor(i) = <<>>
        /\ ~Pipeline(i) => EmittedFor(i) = <<>>

\* C20, amended: every 'error' event was emitted by the catch block of a
\* completeLogin or refreshTokens that then rejects; an invocation that
\* resolves has emitted none, whatever it is; a validateMinecraftToken or a
\* checkGameOwnership has emitted none, whether it succeeded or swallowed a
\* failure; and a getAuthorizationUrl() call emits none.
C20_OnlyPipelineFailuresEmitted ==
    /\ [](\A n \in 1..Len(emitted) :
              /\ emitted[n].inv \in DOMAIN pc
              /\ Pipeline(emitted[n].inv)
              /\ pc[emitted[n].inv] \in {"throw", "rejected"})
    /\ [](\A i \in DOMAIN pc :
              (pc[i] = "resolved" \/ ~Pipeline(i)) => EmittedFor(i) = <<>>)
    /\ [][Len(urls') > Len(urls) => emitted' = emitted]_vars

\* A token validation swallowed a failed entitlement call while a listener
\* was registered and the authorization URL had been asked for: no event.
C20_Witness ==
    \E i \in DOMAIN pc :
        /\ op[i] = "validateMinecraftToken"
        /\ pc[i] = "resolved"
        /\ ~responses[i][1].outcome.ok
        /\ listeners # <<>>
        /\ urls # <<>>
        /\ emitted = <<>>

\* --------------------------------------------- the error the caller receives

\* C21, as claimed: the error that leaves the catch block of completeLogin or
\* refreshTokens, and with which the invocation rejects, is the error the
\* failing stage threw, with no listener registered and with any listeners,
\* those that throw included.
C21_RejectsWithStageError ==
    \A i \in DOMAIN pc :
        (Pipeline(i) /\ pc[i] \in {"throw", "rejected"}) =>
            /\ pending[i] = StageError(i)
            /\ pc[i] = "rejected" => settled[i] = StageError(i)

\* The same, for the invocations no throwing listener was registered for
\* when the catch block ran.
C21_RejectsWithStageErrorUnlessListenerThrows ==
    \A i \in DOMAIN pc :
        (/\ Pipeline(i)
         /\ pc[i] \in {"throw", "rejected"}
         /\ \A n \in 1..Len(listeners) : listeners[n] # "throws") =>
            /\ pending[i] = StageError(i)
            /\ pc[i] = "rejected" => settled[i] = StageError(i)

====
